---------------------------- MODULE Spec2Model ----------------------------
(***************************************************************************)
(* Model of Splash's logging facility (class Log, log.h) and of the        *)
(* spin lock that guards it (class Spinlock, spinlock.h).                  *)
(*                                                                         *)
(* A std::string is a sequence of symbols; each symbol is a short TLA+     *)
(* string.  A log entry is the std::pair<std::string, Priority> of the     *)
(* source (fields first, second) plus the ghost field id, the number of    *)
(* the insertion that created it, which no operation of the program reads. *)
(***************************************************************************)
EXTENDS Integers, Sequences, FiniteSets, TLC

(***************************************************************************)
(* Bounds of the model.                                                    *)
(***************************************************************************)
\* Log::_logLength{500} (log.h, member initialiser), scaled down so that
\* evictions happen within the bounded runs.
logLength == 2
\* Number of calls made in one run by concurrent threads.
MaxCalls == 3
\* Number of calls made in one run by a single thread.
MaxSeqCalls == 6
\* Number of calls made in one run by a single thread that streams.
MaxStreamCalls == 6
\* Number of calls made in one run by a single thread that exercises the
\* sinks of rec and the priority filter.
MaxSinkCalls == 4
\* Number of calls made in one run by two threads that stream, record and
\* read History with no serialization of their own.
MaxRaceCalls == 4

\* The threads that call into the Log, the single caller of the sequential
\* runs, and the threads that contend for a bare Spinlock.
Threads == {1, 2}
SeqThreads == {1}
LockThreads == {1, 2, 3}

(***************************************************************************)
(* enum Log::Priority                                                      *)
(***************************************************************************)
DEBUGGING == 0
MESSAGE == 1
WARNING == 2
ERROR == 3
NONE == 4
Priority == {DEBUGGING, MESSAGE, WARNING, ERROR, NONE}

\* The seconds std::chrono::system_clock::now() is read as: the readings
\* of one run fall within one second.
Clock == {0}

(***************************************************************************)
(* Strings and the values handed to the variadic interface.                *)
(***************************************************************************)
Digit == <<"0", "1", "2", "3", "4", "5", "6", "7", "8", "9">>

RECURSIVE to_string(_)
\* std::to_string of a non-negative int: its decimal digits.
to_string(n) ==
    IF n < 10 THEN <<Digit[n + 1]>>
    ELSE to_string(n \div 10) \o <<Digit[(n % 10) + 1]>>

\* A numeric argument and a textual argument of the variadic calls.
IntV(n) == [k |-> "int", n |-> n, s |-> <<>>]
StrV(s) == [k |-> "str", n |-> 0, s |-> s]

RECURSIVE addToString(_, _)
\* The three addToString overloads and the terminating one: each argument is
\* appended to str in order, a number through std::to_string.
addToString(str, args) ==
    IF args = <<>> THEN str
    ELSE addToString(str \o (IF Head(args).k = "int"
                                THEN to_string(Head(args).n)
                                ELSE Head(args).s),
                     Tail(args))

\* strftime(time_c, 64, "%FT%T", localtime(&now_c))
strftime(now) == <<"T">> \o to_string(now)

\* The tag chosen by the if/else chain of rec; NONE leaves type empty.
type(p) ==
    IF p = MESSAGE THEN <<"[MESSAGE]">>
    ELSE IF p = DEBUGGING THEN <<" ", "[DEBUG]", " ">>
    ELSE IF p = WARNING THEN <<"[WARNING]">>
    ELSE IF p = ERROR THEN <<" ", "[ERROR]", " ">>
    ELSE <<>>

\* A variant of timedMsg that appends the arguments a second time.
timedMsgTwice(now, p, args) ==
    addToString(addToString(strftime(now) \o <<" / ">> \o type(p) \o <<" / ">>,
                            args), args)

\* timedMsg as rec composes it.
timedMsg(now, p, args) ==
    addToString(strftime(now) \o <<" / ">> \o type(p) \o <<" / ">>, args)

\* msg.find(tag): the first position of tag in msg, 0 for npos.
find(msg, tag) ==
    IF \E i \in 1..Len(msg) : msg[i] = tag
    THEN CHOOSE i \in 1..Len(msg) :
            msg[i] = tag /\ \A j \in 1..(i - 1) : msg[j] # tag
    ELSE 0

\* msg.replace(find(tag), len, coloured)
replace(msg, tag, coloured) ==
    [i \in 1..Len(msg) |-> IF i = find(msg, tag) THEN coloured ELSE msg[i]]

\* The line toConsole prints: the first tag found, in the order MESSAGE,
\* DEBUG, WARNING, ERROR, is wrapped in its colour.
toConsole(message) ==
    IF find(message, "[MESSAGE]") # 0
        THEN replace(message, "[MESSAGE]", "\\033[32;1m[MESSAGE]\\033[0m")
    ELSE IF find(message, "[DEBUG]") # 0
        THEN replace(message, "[DEBUG]", "\\033[36;1m[DEBUG]\\033[0m")
    ELSE IF find(message, "[WARNING]") # 0
        THEN replace(message, "[WARNING]", "\\033[33;1m[WARNING]\\033[0m")
    ELSE IF find(message, "[ERROR]") # 0
        THEN replace(message, "[ERROR]", "\\033[31;1m[ERROR]\\033[0m")
    ELSE message

\* std::pair<std::string, Priority> with the ghost insertion number.
Entry(text, p, id) == [first |-> text, second |-> p, id |-> id]
\* The pair as a caller sees it.
Pair(e) == <<e.first, e.second>>
Pairs(s) == [i \in 1..Len(s) |-> Pair(s[i])]

(***************************************************************************)
(* State.                                                                  *)
(***************************************************************************)
VARIABLES
    mutex,        \* Spinlock::_lock of Log::_mutex: TRUE when the flag is set
    logs,         \* Log::_logs
    logToFile,    \* Log::_logToFile
    logPointer,   \* Log::_logPointer
    verbosity,    \* Log::_verbosity
    tempString,   \* Log::_tempString
    tempPriority, \* Log::_tempPriority
    file,         \* the lines appended to SPLASH_LOG_FILE
    console,      \* the lines written to std::cout
    pc,           \* where each thread is
    op,           \* the call each thread is in: its name and arguments
    ret,          \* what each thread's last completed call returned
    owners,       \* ghost: threads between a successful acquire and its unlock
    calls,        \* ghost: number of calls made so far; a call's number is its id
    inserted,     \* ghost: every entry pushed to logs, in push order
    delivered,    \* ghost: ids of the entries getNewLogs returned, in order
    polledAt,     \* ghost: Len(inserted) at the last getNewLogs, -1 before any
    acquired,     \* ghost: ids of the calls in the order they took the lock
    streamed,     \* ghost: values accumulated since the buffer was last cleared
    lastAccess,   \* ghost: the thread of the last step that touched the
                  \* facility's members, and whether it held the lock
    recorded,     \* ghost: ids of the calls of operator()
    budget,       \* number of calls the run is bounded to
    pre           \* ghost: what the last operator<<(endl) found on entry

vars == <<mutex, logs, logToFile, logPointer, verbosity, tempString,
          tempPriority, file, console, pc, op, ret, owners, calls, inserted,
          delivered, polledAt, acquired, streamed, lastAccess, recorded,
          budget, pre>>

facility == <<logs, logToFile, logPointer, verbosity, tempString, tempPriority,
              file, console>>
ghosts == <<inserted, delivered, polledAt, streamed>>

NoOp == [name |-> "none", id |-> 0, p |-> MESSAGE, args |-> <<>>, prios |-> <<>>,
         good |-> TRUE]
NoRet == [name |-> "none"]
Call(name, id, p, args, prios) ==
    [name |-> name, id |-> id, p |-> p, args |-> args, prios |-> prios,
     good |-> TRUE]

\* The unique marker a caller embeds in the message of call id.
Marker(id) == <<StrV(<<"#">>), IntV(id), StrV(<<";">>)>>
MarkerText(id) == addToString(<<>>, Marker(id))

\* The priority lists handed to getLogs.
PriorityLists ==
    {<<>>, <<MESSAGE>>, <<WARNING, ERROR>>, <<ERROR, DEBUGGING>>,
     <<WARNING, WARNING>>}

\* The state a flush starts from: History, cursor, number of insertions so
\* far, pending priority, verbosity and the values accumulated, together
\* with the values that flushes so far have cleared without recording.
Found(ls, pointer, n, p, v, values, dropped) ==
    [logs |-> ls, logPointer |-> pointer, n |-> n, priority |-> p,
     verbosity |-> v, values |-> values, dropped |-> dropped]

\* Member initialisers of Log and ATOMIC_FLAG_INIT.
Start ==
    /\ mutex = FALSE
    /\ logs = <<>>
    /\ logToFile = FALSE
    /\ logPointer = 0
    /\ verbosity = MESSAGE
    /\ tempString = <<>>
    /\ tempPriority = MESSAGE
    /\ file = <<>>
    /\ console = <<>>
    /\ pc = [t \in LockThreads |-> "idle"]
    /\ op = [t \in LockThreads |-> NoOp]
    /\ ret = [t \in LockThreads |-> NoRet]
    /\ owners = {}
    /\ calls = 0
    /\ inserted = <<>>
    /\ delivered = <<>>
    /\ polledAt = -1
    /\ acquired = <<>>
    /\ streamed = <<>>
    /\ lastAccess = [thread |-> 0, locked |-> TRUE]
    /\ recorded = {}
    /\ pre = Found(<<>>, 0, 0, MESSAGE, MESSAGE, <<>>, <<>>)

Init == Start /\ budget = MaxCalls
InitSeq == Start /\ budget = MaxSeqCalls
InitStream == Start /\ budget = MaxStreamCalls
InitSink == Start /\ budget = MaxSinkCalls
InitRace == Start /\ budget = MaxRaceCalls

\* What a step of thread t that touches the facility's members records.
Access(t) == [thread |-> t, locked |-> t \in owners]

(***************************************************************************)
(* Spinlock                                                                *)
(***************************************************************************)
\* A variant of test_and_set that reports the flag clear whatever it was.
test_and_set_blind(flag) == FALSE

\* _lock.test_and_set(std::memory_order_acquire): the value the flag had;
\* the flag is set afterwards.
test_and_set(flag) == flag

\* A variant of Body in which a bare lock() that found the flag clear goes
\* round its loop again.
BodyLoopsOn(name) ==
    CASE name = "operator()" -> "rec"
      [] name = "operator<<T" -> "addToString"
      [] name = "operator<<Priority" -> "setPriority"
      [] name = "operator<<Action" -> "endl"
      [] name = "getLogs" -> "getLogs"
      [] name = "getNewLogs" -> "getNewLogs"
      [] name = "setLog" -> "setLog"
      [] OTHER -> "lock"

\* The pc a thread continues at once lock() has returned.
Body(name) ==
    CASE name = "operator()" -> "rec"
      [] name = "operator<<T" -> "addToString"
      [] name = "operator<<Priority" -> "setPriority"
      [] name = "operator<<Action" -> "endl"
      [] name = "getLogs" -> "getLogs"
      [] name = "getNewLogs" -> "getNewLogs"
      [] name = "setLog" -> "setLog"
      [] OTHER -> "held"

\* One iteration of the loop of Spinlock::lock(): leave the loop when
\* test_and_set found the flag clear, go round again otherwise.
Lock(t) ==
    /\ pc[t] = "lock"
    /\ IF ~test_and_set(mutex)
          THEN /\ pc' = [pc EXCEPT ![t] = Body(op[t].name)]
               /\ owners' = owners \cup {t}
               /\ acquired' = Append(acquired, op[t].id)
          ELSE UNCHANGED <<pc, owners, acquired>>
    /\ mutex' = TRUE
    /\ UNCHANGED <<facility, op, ret, calls, ghosts, lastAccess, recorded, budget, pre>>

\* Spinlock::unlock(), called by the lock_guard's destructor or by the holder.
Unlock(t) ==
    /\ pc[t] \in {"unlock", "held"}
    /\ mutex' = FALSE
    /\ owners' = owners \ {t}
    /\ pc' = [pc EXCEPT ![t] = "idle"]
    /\ op' = [op EXCEPT ![t] = NoOp]
    /\ UNCHANGED <<facility, ret, calls, ghosts, acquired, lastAccess, recorded, budget, pre>>

\* Spinlock::try_lock(): one test_and_set, by a thread that holds the lock
\* or not.
TryLock(t) ==
    /\ pc[t] \in {"idle", "held"}
    /\ calls < budget
    /\ calls' = calls + 1
    /\ op' = [op EXCEPT ![t] = Call("try_lock", calls + 1, MESSAGE, <<>>, <<>>)]
    /\ ret' = [ret EXCEPT ![t] = [name |-> "try_lock", val |-> ~test_and_set(mutex)]]
    /\ IF ~test_and_set(mutex)
          THEN /\ pc' = [pc EXCEPT ![t] = "held"]
               /\ owners' = owners \cup {t}
               /\ acquired' = Append(acquired, calls + 1)
          ELSE UNCHANGED <<pc, owners, acquired>>
    /\ mutex' = TRUE
    /\ UNCHANGED <<facility, ghosts, lastAccess, recorded, budget, pre>>

\* A client of the Spinlock calls lock(); a holder may do so again.
CallLock(t) ==
    /\ pc[t] \in {"idle", "held"}
    /\ calls < budget
    /\ calls' = calls + 1
    /\ op' = [op EXCEPT ![t] = Call("lock", calls + 1, MESSAGE, <<>>, <<>>)]
    /\ ret' = [ret EXCEPT ![t] = NoRet]
    /\ pc' = [pc EXCEPT ![t] = "lock"]
    /\ UNCHANGED <<mutex, facility, owners, ghosts, acquired, lastAccess, recorded, budget, pre>>

(***************************************************************************)
(* Log: the calls that take the lock.  A call is entered by its thread     *)
(* (the action named after the method), takes the lock (Lock), runs its    *)
(* body, and releases the lock when the lock_guard goes out of scope       *)
(* (Unlock).                                                               *)
(***************************************************************************)
\* The thread enters a method guarded by std::lock_guard<Spinlock>.
Enter(t, c) ==
    /\ pc[t] = "idle"
    /\ calls < budget
    /\ calls' = calls + 1
    /\ op' = [op EXCEPT ![t] = c]
    /\ ret' = [ret EXCEPT ![t] = NoRet]
    /\ pc' = [pc EXCEPT ![t] = "lock"]
    /\ recorded' = IF c.name = "operator()" THEN recorded \cup {c.id} ELSE recorded
    /\ UNCHANGED <<mutex, facility, owners, ghosts, acquired, lastAccess, budget, pre>>

\* Log::operator()(Priority p, T... args)
Record(t, p) ==
    Enter(t, Call("operator()", calls + 1, p, Marker(calls + 1), <<>>))

\* A variant of eraseBegin that lets History grow one past the cap.
eraseBeginLate(ls, pointer) ==
    IF Len(ls) > logLength + 1
       THEN [logs |-> Tail(ls),
             logPointer |-> IF pointer > 0 THEN pointer - 1 ELSE pointer]
       ELSE [logs |-> ls, logPointer |-> pointer]

\* A variant of eraseBegin that decrements the cursor without testing it.
eraseBeginNoFloor(ls, pointer) ==
    IF Len(ls) > logLength
       THEN [logs |-> Tail(ls), logPointer |-> pointer - 1]
       ELSE [logs |-> ls, logPointer |-> pointer]

\* A variant of eraseBegin that evicts already at the cap.
eraseBeginEarly(ls, pointer) ==
    IF Len(ls) >= logLength
       THEN [logs |-> Tail(ls),
             logPointer |-> IF pointer > 0 THEN pointer - 1 ELSE pointer]
       ELSE [logs |-> ls, logPointer |-> pointer]

\* A variant of eraseBegin that drops the newest entry.
eraseBeginNewest(ls, pointer) ==
    IF Len(ls) > logLength
       THEN [logs |-> SubSeq(ls, 1, Len(ls) - 1),
             logPointer |-> IF pointer > 0 THEN pointer - 1 ELSE pointer]
       ELSE [logs |-> ls, logPointer |-> pointer]

\* A variant of eraseBegin that leaves the cursor where it is.
eraseBeginKeepCursor(ls, pointer) ==
    IF Len(ls) > logLength
       THEN [logs |-> Tail(ls), logPointer |-> pointer]
       ELSE [logs |-> ls, logPointer |-> pointer]

\* The last statement of rec:
\*   if (_logs.size() > _logLength)
\*   { _logPointer = _logPointer > 0 ? _logPointer - 1 : _logPointer;
\*     _logs.erase(_logs.begin()); }
eraseBegin(ls, pointer) ==
    IF Len(ls) > logLength
       THEN [logs |-> Tail(ls),
             logPointer |-> IF pointer > 0 THEN pointer - 1 ELSE pointer]
       ELSE [logs |-> ls, logPointer |-> pointer]

\* Variant of written: the line is written whenever the sink is on, whether
\* or not the stream is good.
writtenUnchecked(f, msg, on, good) ==
    IF on THEN Append(f, msg) ELSE f

\* if (_logToFile) { ofstream logFile(path, app); if (logFile.good()) {
\* logFile << timedMsg << "\n"; logFile.close(); } }: the file after the
\* file-sink block of rec.
written(f, msg, on, good) ==
    IF on /\ good THEN Append(f, msg) ELSE f

\* Variant of echoes: a message at the threshold itself is not printed.
echoesAbove(p, v) == p > v

\* if (p >= _verbosity) toConsole(timedMsg): the console test of rec.
echoes(p, v) == p >= v

\* The first statements of rec, up to _logs.push_back: the message is
\* composed, written to the file when the sink is on and the open succeeds,
\* written to the console when p >= _verbosity, and pushed.  op[t].good
\* keeps the outcome of logFile.good() for this call.
Rec(t, now, good) ==
    /\ pc[t] = "rec"
    /\ LET msg == timedMsg(now, op[t].p, op[t].args)
           e == Entry(msg, op[t].p, op[t].id)
       IN /\ file' = written(file, msg, logToFile, good)
          /\ console' = IF echoes(op[t].p, verbosity)
                           THEN Append(console, toConsole(msg))
                           ELSE console
          /\ logs' = Append(logs, e)
          /\ inserted' = Append(inserted, e)
    /\ op' = [op EXCEPT ![t].good = good]
    /\ pc' = [pc EXCEPT ![t] = "recEvict"]
    /\ lastAccess' = Access(t)
    /\ UNCHANGED <<mutex, logToFile, logPointer, verbosity, tempString,
                   tempPriority, ret, owners, calls, delivered, polledAt,
                   acquired, streamed, recorded, budget, pre>>

\* The end of rec: if (_logs.size() > _logLength) the cursor is decremented
\* when positive and the first entry erased.
RecEvict(t) ==
    /\ pc[t] = "recEvict"
    /\ logs' = eraseBegin(logs, logPointer).logs
    /\ logPointer' = eraseBegin(logs, logPointer).logPointer
    /\ pc' = [pc EXCEPT ![t] = IF op[t].name = "operator<<Action"
                                  THEN "clear" ELSE "unlock"]
    /\ lastAccess' = Access(t)
    /\ UNCHANGED <<mutex, logToFile, verbosity, tempString, tempPriority, file,
                   console, op, ret, owners, calls, ghosts, acquired, recorded, budget, pre>>

\* Log::operator<<(const T& msg)
StreamValue(t) ==
    Enter(t, Call("operator<<T", calls + 1, MESSAGE, Marker(calls + 1), <<>>))

\* addToString(_tempString, msg)
AddToTemp(t) ==
    /\ pc[t] = "addToString"
    /\ tempString' = addToString(tempString, op[t].args)
    /\ streamed' = streamed \o op[t].args
    /\ pc' = [pc EXCEPT ![t] = "unlock"]
    /\ lastAccess' = Access(t)
    /\ UNCHANGED <<mutex, logs, logToFile, logPointer, verbosity, tempPriority,
                   file, console, op, ret, owners, calls, inserted, delivered,
                   polledAt, acquired, recorded, budget, pre>>

\* The text by which thread t signs what it streams.
Name(t) == <<StrV(<<"t">>), IntV(t), StrV(<<";">>)>>
NameText(t) == addToString(<<>>, Name(t))

\* Log::operator<<(const T& msg), called by thread t with its own name.
StreamName(t) ==
    Enter(t, Call("operator<<T", calls + 1, MESSAGE, Name(t), <<>>))

\* Log::operator<<(Log::Priority p)
StreamPriority(t, p) ==
    Enter(t, Call("operator<<Priority", calls + 1, p, <<>>, <<>>))

\* _tempPriority = p
SetTempPriority(t) ==
    /\ pc[t] = "setPriority"
    /\ tempPriority' = op[t].p
    /\ pc' = [pc EXCEPT ![t] = "unlock"]
    /\ lastAccess' = Access(t)
    /\ UNCHANGED <<mutex, logs, logToFile, logPointer, verbosity, tempString,
                   file, console, op, ret, owners, calls, ghosts, acquired, recorded, budget, pre>>

\* A variant of records that leaves out the message at the threshold.
recordsAbove(p, v) == p > v

\* if (_tempPriority >= _verbosity)
records(p, v) == p >= v

\* Log::operator<<(Log::Action action), with action == endl
StreamAction(t) ==
    Enter(t, Call("operator<<Action", calls + 1, MESSAGE, <<>>, <<>>))

\* if (_tempPriority >= _verbosity) rec(_tempPriority, _tempString);
\* rec then runs as Rec and RecEvict with these arguments.
Endl(t) ==
    /\ pc[t] = "endl"
    /\ IF records(tempPriority, verbosity)
          THEN /\ op' = [op EXCEPT ![t].p = tempPriority,
                                   ![t].args = <<StrV(tempString)>>]
               /\ pc' = [pc EXCEPT ![t] = "rec"]
          ELSE /\ pc' = [pc EXCEPT ![t] = "clear"]
               /\ UNCHANGED op
    /\ pre' = Found(logs, logPointer, Len(inserted), tempPriority, verbosity,
                     streamed,
                     IF records(tempPriority, verbosity)
                        THEN pre.dropped
                        ELSE pre.dropped \o streamed)
    /\ lastAccess' = Access(t)
    /\ UNCHANGED <<mutex, facility, ret, owners, calls, ghosts, acquired, recorded,
                   budget>>

\* Variant of flushed: the pending priority survives the flush.
flushedKeepsPriority(str, p) == [tempString |-> <<>>, tempPriority |-> p]

\* _tempString.clear(); _tempPriority = MESSAGE;: the buffer and the pending
\* priority a flush leaves behind.
flushed(str, p) == [tempString |-> <<>>, tempPriority |-> MESSAGE]

\* The last two statements of operator<<(Log::Action).
Clear(t) ==
    /\ pc[t] = "clear"
    /\ tempString' = flushed(tempString, tempPriority).tempString
    /\ tempPriority' = flushed(tempString, tempPriority).tempPriority
    /\ streamed' = <<>>
    /\ pc' = [pc EXCEPT ![t] = "unlock"]
    /\ lastAccess' = Access(t)
    /\ UNCHANGED <<mutex, logs, logToFile, logPointer, verbosity, file, console,
                   op, ret, owners, calls, inserted, delivered, polledAt,
                   acquired, recorded, budget, pre>>

RECURSIVE matches(_, _)
\* The inner loop of getLogs over one entry: its text once for every
\* element of priorities equal to its priority.
matches(log, priorities) ==
    IF priorities = <<>> THEN <<>>
    ELSE (IF log.second = Head(priorities) THEN <<log.first>> ELSE <<>>)
         \o matches(log, Tail(priorities))

RECURSIVE getLogs(_, _)
\* The outer loop of getLogs over _logs.
getLogs(ls, priorities) ==
    IF ls = <<>> THEN <<>>
    ELSE matches(Head(ls), priorities) \o getLogs(Tail(ls), priorities)

\* Log::getLogs(T... args)
GetLogs(t, priorities) ==
    Enter(t, Call("getLogs", calls + 1, MESSAGE, <<>>, priorities))

\* The body of getLogs.
GetLogsBody(t) ==
    /\ pc[t] = "getLogs"
    /\ ret' = [ret EXCEPT ![t] =
                  [name |-> "getLogs", val |-> getLogs(logs, op[t].prios)]]
    /\ pc' = [pc EXCEPT ![t] = "unlock"]
    /\ lastAccess' = Access(t)
    /\ UNCHANGED <<mutex, facility, op, owners, calls, ghosts, acquired, recorded, budget, pre>>

\* The entries getNewLogs copies: _logs[i] for i from _logPointer while
\* i < _logs.size() (0-based in the source, 1-based here).
newLogs(ls, pointer) ==
    IF pointer < Len(ls) THEN SubSeq(ls, pointer + 1, Len(ls)) ELSE <<>>

\* A variant of nextPointer that leaves the cursor where it is.
nextPointerStays(ls, pointer) == pointer

\* _logPointer = _logs.size()
nextPointer(ls, pointer) == Len(ls)

\* Log::getNewLogs()
GetNewLogs(t) ==
    Enter(t, Call("getNewLogs", calls + 1, MESSAGE, <<>>, <<>>))

\* The body of getNewLogs: copy from the cursor, then _logPointer = size.
GetNewLogsBody(t) ==
    /\ pc[t] = "getNewLogs"
    /\ ret' = [ret EXCEPT ![t] =
                  [name |-> "getNewLogs", val |-> Pairs(newLogs(logs, logPointer))]]
    /\ delivered' = delivered \o
                      [i \in 1..Len(newLogs(logs, logPointer)) |->
                          newLogs(logs, logPointer)[i].id]
    /\ polledAt' = Len(inserted)
    /\ logPointer' = nextPointer(logs, logPointer)
    /\ pc' = [pc EXCEPT ![t] = "unlock"]
    /\ lastAccess' = Access(t)
    /\ UNCHANGED <<mutex, logs, logToFile, verbosity, tempString, tempPriority,
                   file, console, op, owners, calls, inserted, streamed,
                   acquired, recorded, budget, pre>>

\* A variant of popFront that pops the oldest entry and leaves the cursor.
popFrontKeepCursor(ls, pointer) ==
    IF Len(ls) > logLength
       THEN [logs |-> Tail(ls), logPointer |-> pointer]
       ELSE [logs |-> ls, logPointer |-> pointer]

\* The last statement of setLog:
\*   if (_logs.size() > _logLength)
\*   { _logPointer = _logPointer > 0 ? _logPointer - 1 : _logPointer;
\*     _logs.pop_front(); }
popFront(ls, pointer) ==
    IF Len(ls) > logLength
       THEN [logs |-> Tail(ls),
             logPointer |-> IF pointer > 0 THEN pointer - 1 ELSE pointer]
       ELSE [logs |-> ls, logPointer |-> pointer]

\* Log::setLog(const std::string& log, Priority priority)
SetLog(t, p) ==
    Enter(t, Call("setLog", calls + 1, p,
                  <<StrV(<<"ext">> \o MarkerText(calls + 1))>>, <<>>))

\* _logs.push_back(pair(log, priority))
SetLogPush(t) ==
    /\ pc[t] = "setLog"
    /\ LET e == Entry(op[t].args[1].s, op[t].p, op[t].id)
       IN /\ logs' = Append(logs, e)
          /\ inserted' = Append(inserted, e)
    /\ pc' = [pc EXCEPT ![t] = "setLogEvict"]
    /\ lastAccess' = Access(t)
    /\ UNCHANGED <<mutex, logToFile, logPointer, verbosity, tempString,
                   tempPriority, file, console, op, ret, owners, calls,
                   delivered, polledAt, acquired, streamed, recorded, budget, pre>>

\* The end of setLog: if (_logs.size() > _logLength) the cursor is
\* decremented when positive and the first entry popped.
SetLogEvict(t) ==
    /\ pc[t] = "setLogEvict"
    /\ logs' = popFront(logs, logPointer).logs
    /\ logPointer' = popFront(logs, logPointer).logPointer
    /\ pc' = [pc EXCEPT ![t] = "unlock"]
    /\ lastAccess' = Access(t)
    /\ UNCHANGED <<mutex, logToFile, verbosity, tempString, tempPriority, file,
                   console, op, ret, owners, calls, ghosts, acquired, recorded, budget, pre>>

(***************************************************************************)
(* Log: the calls that take no lock.  Each is one step of its thread.      *)
(***************************************************************************)
\* A thread is in the middle of changing _logs.
Writing(t) == pc[t] \in {"rec", "recEvict", "setLog", "setLogEvict"}

\* What an unsynchronised copy of the deque cut short or overtaken by a
\* writer may hold in place of an entry.
Torn == <<<<"<torn>">>, NONE>>

\* What the copy made by getFullLogs may hold.  With no writer at work it is
\* _logs.  While another thread changes _logs the read is a data race, and
\* the copy is _logs, or a prefix of it, or a prefix followed by a torn entry.
fullLogs(t) ==
    IF \E u \in Threads \ {t} : Writing(u)
       THEN {Pairs(SubSeq(logs, 1, n)) : n \in 0..Len(logs)}
            \cup {Append(Pairs(SubSeq(logs, 1, n)), Torn) : n \in 0..Len(logs)}
       ELSE {Pairs(logs)}

\* Log::getFullLogs()
GetFullLogs(t) ==
    /\ pc[t] = "idle"
    /\ \E copy \in fullLogs(t) :
          ret' = [ret EXCEPT ![t] = [name |-> "getFullLogs", val |-> copy]]
    /\ calls < budget
    /\ calls' = calls + 1
    /\ op' = [op EXCEPT ![t] = NoOp]
    /\ lastAccess' = Access(t)
    /\ UNCHANGED <<mutex, facility, pc, owners, ghosts, acquired, recorded, budget, pre>>

\* Log::getVerbosity().  Like logToFile and setVerbosity it reads or writes
\* one word with no lock; run against a locked method it yields the value
\* before or after the other thread's write, which is the step's place in
\* the interleaving.
GetVerbosity(t) ==
    /\ pc[t] = "idle"
    /\ ret' = [ret EXCEPT ![t] = [name |-> "getVerbosity", val |-> verbosity]]
    /\ calls < budget
    /\ calls' = calls + 1
    /\ op' = [op EXCEPT ![t] = NoOp]
    /\ lastAccess' = Access(t)
    /\ UNCHANGED <<mutex, facility, pc, owners, ghosts, acquired, recorded, budget, pre>>

\* Log::logToFile(bool activate)
LogToFile(t, activate) ==
    /\ pc[t] = "idle"
    /\ calls < budget
    /\ calls' = calls + 1
    /\ logToFile' = activate
    /\ op' = [op EXCEPT ![t] = NoOp]
    /\ ret' = [ret EXCEPT ![t] = NoRet]
    /\ lastAccess' = Access(t)
    /\ UNCHANGED <<mutex, logs, logPointer, verbosity, tempString, tempPriority,
                   file, console, pc, owners, ghosts, acquired, recorded, budget, pre>>

\* Log::setVerbosity(Priority p)
SetVerbosity(t, p) ==
    /\ pc[t] = "idle"
    /\ calls < budget
    /\ calls' = calls + 1
    /\ verbosity' = p
    /\ op' = [op EXCEPT ![t] = NoOp]
    /\ ret' = [ret EXCEPT ![t] = NoRet]
    /\ lastAccess' = Access(t)
    /\ UNCHANGED <<mutex, logs, logToFile, logPointer, tempString, tempPriority,
                   file, console, pc, owners, ghosts, acquired, recorded, budget, pre>>

(***************************************************************************)
(* Specifications.                                                         *)
(***************************************************************************)
\* rec with the clock as read and the outcome of opening the log file,
\* which is tested only when the file sink is on.
RecStep(t) ==
    \E now \in Clock, good \in (IF logToFile THEN BOOLEAN ELSE {TRUE}) :
        Rec(t, now, good)

\* The steps inside the calls that a thread has entered.
Inside(t) ==
    \/ Lock(t)
    \/ RecStep(t)
    \/ RecEvict(t)
    \/ AddToTemp(t)
    \/ SetTempPriority(t)
    \/ Endl(t)
    \/ Clear(t)
    \/ GetLogsBody(t)
    \/ GetNewLogsBody(t)
    \/ SetLogPush(t)
    \/ SetLogEvict(t)
    \/ Unlock(t)

\* Any number of threads call into the one Log instance, through every
\* public method.
Enters(t) ==
    \/ Record(t, WARNING)
    \/ StreamValue(t)
    \/ StreamPriority(t, DEBUGGING)
    \/ StreamAction(t)
    \/ GetLogs(t, <<WARNING, ERROR>>)
    \/ GetNewLogs(t)
    \/ SetLog(t, ERROR)
    \/ GetFullLogs(t)
    \/ GetVerbosity(t)
    \/ LogToFile(t, TRUE)
    \/ SetVerbosity(t, WARNING)

Next == \E t \in Threads : Enters(t) \/ Inside(t)
Spec == Init /\ [][Next]_vars

\* One thread inserts through the three inserting interfaces and polls.
SeqEnters(t) ==
    \/ Record(t, WARNING)
    \/ SetLog(t, ERROR)
    \/ StreamValue(t)
    \/ StreamAction(t)
    \/ GetNewLogs(t)
    \/ GetFullLogs(t)

SeqInside(t) ==
    \/ Lock(t)
    \/ RecStep(t)
    \/ RecEvict(t)
    \/ AddToTemp(t)
    \/ Endl(t)
    \/ Clear(t)
    \/ GetNewLogsBody(t)
    \/ SetLogPush(t)
    \/ SetLogEvict(t)
    \/ Unlock(t)

NextSeq ==
    \E t \in SeqThreads : SeqEnters(t) \/ SeqInside(t)
SpecSeq == InitSeq /\ [][NextSeq]_vars

\* One thread uses the streaming interface under either verbosity, and polls.
StreamEnters(t) ==
    \/ StreamValue(t)
    \/ StreamPriority(t, DEBUGGING)
    \/ StreamPriority(t, ERROR)
    \/ StreamAction(t)
    \/ SetVerbosity(t, WARNING)
    \/ GetNewLogs(t)

StreamInside(t) ==
    \/ Lock(t)
    \/ RecStep(t)
    \/ RecEvict(t)
    \/ AddToTemp(t)
    \/ SetTempPriority(t)
    \/ Endl(t)
    \/ Clear(t)
    \/ GetNewLogsBody(t)
    \/ Unlock(t)

NextStream ==
    \E t \in SeqThreads : StreamEnters(t) \/ StreamInside(t)
SpecStream == InitStream /\ [][NextStream]_vars

\* One thread records at every priority under every verbosity, with the file
\* sink on or off and the open succeeding or failing, and reads History back
\* whole or filtered by priority.
SinkEnters(t) ==
    \/ \E p \in Priority : Record(t, p)
    \/ \E v \in Priority : SetVerbosity(t, v)
    \/ \E activate \in BOOLEAN : LogToFile(t, activate)
    \/ \E priorities \in PriorityLists : GetLogs(t, priorities)
    \/ GetFullLogs(t)

SinkInside(t) ==
    \/ Lock(t)
    \/ Unlock(t)
    \/ RecStep(t)
    \/ RecEvict(t)
    \/ GetLogsBody(t)

NextSink ==
    \E t \in SeqThreads : SinkEnters(t) \/ SinkInside(t)
SpecSink == InitSink /\ [][NextSink]_vars

\* Two threads stream their names and flush, record, and read History, with
\* nothing but the facility's own lock between them.
RaceEnters(t) ==
    \/ StreamName(t)
    \/ StreamAction(t)
    \/ Record(t, WARNING)
    \/ GetFullLogs(t)

RaceInside(t) ==
    \/ Lock(t)
    \/ Unlock(t)
    \/ RecStep(t)
    \/ RecEvict(t)
    \/ AddToTemp(t)
    \/ Endl(t)
    \/ Clear(t)

NextRace ==
    \E t \in Threads : RaceEnters(t) \/ RaceInside(t)
SpecRace == InitRace /\ [][NextRace]_vars

\* Threads use a Spinlock directly.
NextLock ==
    \E t \in LockThreads :
        \/ CallLock(t)
        \/ TryLock(t)
        \/ Lock(t)
        \/ Unlock(t)
SpecLock == Init /\ [][NextLock]_vars

\* The same threads, each of which, while it is in the loop of lock(), keeps
\* executing iterations of it.  Nothing obliges a holder to unlock or any
\* thread to make a further call.
SpecLockFair ==
    Init /\ [][NextLock]_vars /\ \A t \in LockThreads : WF_vars(Lock(t))

(***************************************************************************)
(* Properties.                                                             *)
(***************************************************************************)
Min(a, b) == IF a < b THEN a ELSE b

\* The last n elements of s.
LastN(s, n) == SubSeq(s, Len(s) - n + 1, Len(s))

\* The place of call id in a sequence of ids, 0 when it is not there.
Place(ids, id) ==
    IF \E i \in 1..Len(ids) : ids[i] = id
       THEN CHOOSE i \in 1..Len(ids) : ids[i] = id
       ELSE 0

Ids(s) == [i \in 1..Len(s) |-> s[i].id]

\* text holds part as a contiguous piece.
Contains(text, part) ==
    \E i \in 1..(Len(text) - Len(part) + 1) :
        SubSeq(text, i, i + Len(part) - 1) = part

\* No insertion is between its push and its eviction test.
InsertionsComplete == \A t \in Threads : pc[t] \notin {"recEvict", "setLogEvict"}

AllReturned == \A t \in Threads : pc[t] = "idle"

\* C1: once every insertion that pushed an entry has finished (one-shot
\* record, external log or recording flush), History holds at most the cap.
C1_LengthWithinCap == InsertionsComplete => Len(logs) <= logLength

\* More entries than the cap were inserted, all calls have returned and
\* History is exactly at the cap.
C1_Witness ==
    /\ AllReturned
    /\ Len(inserted) > logLength
    /\ Len(logs) = logLength

\* C2: what getFullLogs returns after n sequential insertions is the last
\* min(n, cap) inserted entries in insertion order.
C2_FullLogsAreLastInserted ==
    \A t \in SeqThreads :
        ret[t].name = "getFullLogs" =>
            ret[t].val = Pairs(LastN(inserted, Min(Len(inserted), logLength)))

\* getFullLogs has returned after an eviction: two more entries than the cap
\* were inserted.
C2_Witness ==
    \E t \in SeqThreads :
        /\ ret[t].name = "getFullLogs"
        /\ Len(inserted) = logLength + 2
        /\ Len(ret[t].val) = logLength

\* C3: the cursor stays between 0 and the length of History.
C3_CursorInRange == 0 <= logPointer /\ logPointer <= Len(logs)

\* An eviction has moved a positive cursor down, and an eviction has found
\* the cursor at 0: entries were delivered, and entries were evicted before
\* they were delivered.
C3_Witness ==
    /\ AllReturned
    /\ Len(inserted) > logLength
    /\ delivered # <<>>
    /\ logPointer = 0
    /\ \E i \in 1..(Len(inserted) - Len(logs)) :
          Place(delivered, inserted[i].id) = 0

\* C4: getNewLogs returns no entry twice, returns entries in insertion
\* order, and a call returns every retained entry no earlier call returned.
C4_NewLogsOnceInOrderNoGap ==
    /\ \A i, j \in 1..Len(delivered) :
          i < j => Place(Ids(inserted), delivered[i])
                      < Place(Ids(inserted), delivered[j])
    /\ \A t \in SeqThreads :
          (pc[t] = "unlock" /\ op[t].name = "getNewLogs") =>
              /\ \A k \in 1..Len(logs) : Place(delivered, logs[k].id) # 0
              /\ Len(ret[t].val) <= Len(delivered)
              /\ \A k \in 1..Len(ret[t].val) :
                    \E e \in {inserted[i] : i \in 1..Len(inserted)} :
                        /\ e.id = LastN(delivered, Len(ret[t].val))[k]
                        /\ Pair(e) = ret[t].val[k]

\* A second poll returns entries after evictions: an entry delivered by an
\* earlier poll has been evicted, an entry was evicted undelivered, and this
\* poll returned the whole of History.
C4_Witness ==
    \E t \in SeqThreads :
        /\ pc[t] = "unlock"
        /\ op[t].name = "getNewLogs"
        /\ Len(ret[t].val) = logLength
        /\ Len(delivered) > logLength
        /\ \E i \in 1..Len(inserted) : Place(delivered, inserted[i].id) = 0

\* C5: a getNewLogs that follows a getNewLogs with no insertion in between
\* returns nothing and leaves the cursor and History as they were.
C5_SecondPollEmpty ==
    [][\A t \in SeqThreads :
          (pc[t] = "getNewLogs" /\ pc'[t] = "unlock" /\ polledAt = Len(inserted))
              => /\ ret'[t].val = <<>>
                 /\ logPointer' = logPointer
                 /\ logs' = logs]_vars

\* A poll that delivered entries has been followed, with no insertion in
\* between, by a poll that returned nothing.
C5_Witness ==
    \E t \in SeqThreads :
        /\ pc[t] = "unlock"
        /\ op[t].name = "getNewLogs"
        /\ ret[t].val = <<>>
        /\ delivered # <<>>
        /\ delivered[Len(delivered)] = inserted[Len(inserted)].id

\* C6: at most one thread is between a successful lock() or try_lock() and
\* its unlock().
C6_MutualExclusion == Cardinality(owners) <= 1

\* A thread that took the lock with try_lock() holds it while a second
\* thread spins in lock() and the try_lock() of a third has failed.
C6_Witness ==
    \E t, u, w \in LockThreads :
        /\ t \in owners
        /\ ret[t].name = "try_lock"
        /\ ret[t].val = TRUE
        /\ u # t
        /\ pc[u] = "lock"
        /\ w \notin {t, u}
        /\ ret[w].name = "try_lock"
        /\ ret[w].val = FALSE

\* C7: every step of a public operation that reads or writes a member of
\* the facility is taken by a thread that holds the lock, and no thread
\* holds the lock once its call has returned.
C7_EveryAccessUnderLock ==
    /\ lastAccess.locked
    /\ \A t \in Threads : pc[t] = "idle" => t \notin owners

\* C8: entries stand in History in the order in which their calls took the
\* lock.
C8_HistoryInAcquisitionOrder ==
    \A i, j \in 1..Len(logs) :
        i < j => Place(acquired, logs[i].id) < Place(acquired, logs[j].id)

\* Two calls of operator() or setLog were entered in one order and took the
\* lock in the other, and both entries are in History, in the order of the
\* lock.
C8_Witness ==
    \E i, j \in 1..Len(logs) :
        /\ i < j
        /\ logs[i].id > logs[j].id
        /\ \A k \in {i, j} : logs[k].second \in {WARNING, ERROR}

\* C9: when all calls so far were one-shot records by concurrent threads and
\* all have returned, History holds min(N, cap) entries, no marker is in two
\* entries, every entry carries a marker, and with N within the cap every
\* marker is there.
C9_NoLostOrDuplicatedRecord ==
    (AllReturned /\ recorded = 1..calls) =>
        /\ Len(logs) = Min(calls, logLength)
        /\ \A id \in recorded :
              Cardinality({k \in 1..Len(logs) :
                              Contains(logs[k].first, MarkerText(id))}) <= 1
        /\ \A k \in 1..Len(logs) :
              \E id \in recorded : Contains(logs[k].first, MarkerText(id))
        /\ calls <= logLength =>
              \A id \in recorded :
                  \E k \in 1..Len(logs) : Contains(logs[k].first, MarkerText(id))

\* Both threads have recorded, more records were made than the cap holds,
\* and all calls have returned.
C9_Witness ==
    /\ AllReturned
    /\ recorded = 1..calls
    /\ calls > logLength
    /\ \E i, j \in 1..Len(logs) : i < j /\ logs[i].id > logs[j].id

RECURSIVE Concatenation(_)
\* The string forms of values, one after the other.
Concatenation(values) ==
    IF values = <<>> THEN <<>>
    ELSE (IF Head(values).k = "int" THEN to_string(Head(values).n)
                                    ELSE Head(values).s)
         \o Concatenation(Tail(values))

\* C10: in a single thread, a flush whose pending priority is at least the
\* verbosity appends one entry with that priority whose body is the
\* concatenation of the values accumulated; a flush below the verbosity
\* leaves History and the cursor as they were.
C10_FlushAppendsConcatenation ==
    \A t \in SeqThreads :
        (pc[t] = "unlock" /\ op[t].name = "operator<<Action") =>
            IF pre.priority >= pre.verbosity
               THEN /\ Len(inserted) = pre.n + 1
                    /\ inserted[Len(inserted)].second = pre.priority
                    /\ \E now \in Clock :
                          inserted[Len(inserted)].first =
                              strftime(now) \o <<" / ">> \o type(pre.priority)
                                  \o <<" / ">> \o Concatenation(pre.values)
                    /\ logs = LastN(Append(pre.logs, inserted[Len(inserted)]),
                                    Min(Len(pre.logs) + 1, logLength))
               ELSE /\ Len(inserted) = pre.n
                    /\ logs = pre.logs
                    /\ logPointer = pre.logPointer

\* A flush at the threshold has recorded two accumulated values as one
\* entry, and a later flush below the verbosity, with a value accumulated,
\* has left that History as it was.
C10_Witness ==
    \E t \in SeqThreads :
        /\ pc[t] = "unlock"
        /\ op[t].name = "operator<<Action"
        /\ pre.priority < pre.verbosity
        /\ pre.values # <<>>
        /\ Len(pre.logs) = 1
        /\ \E a, b \in 1..calls :
              Contains(pre.logs[1].first, MarkerText(a) \o MarkerText(b))

\* C11: for every priority p and verbosity v, a one-shot record at p appends
\* exactly one entry with priority p to History whether or not p >= v, the
\* eviction that follows keeps that entry as the newest, and the console
\* gains one line if and only if p >= v.
C11_RecordedWhateverTheVerbosity ==
    [][\A t \in SeqThreads :
          /\ (pc[t] = "rec" /\ pc'[t] = "recEvict"
                  /\ op[t].name = "operator()") =>
                /\ Len(logs') = Len(logs) + 1
                /\ SubSeq(logs', 1, Len(logs)) = logs
                /\ logs'[Len(logs')].second = op[t].p
                /\ logs'[Len(logs')].id = op[t].id
                /\ inserted' = Append(inserted, logs'[Len(logs')])
                /\ IF op[t].p >= verbosity
                      THEN /\ Len(console') = Len(console) + 1
                           /\ SubSeq(console', 1, Len(console)) = console
                      ELSE console' = console
          /\ (pc[t] = "recEvict" /\ pc'[t] = "unlock"
                  /\ op[t].name = "operator()") =>
                /\ logs' # <<>>
                /\ logs'[Len(logs')] = logs[Len(logs)]
                /\ console' = console]_vars

\* With the verbosity at WARNING, a DEBUGGING or MESSAGE record has been
\* made: nothing was printed and getFullLogs returns the entry.
C11_Witness ==
    \E t \in SeqThreads :
        /\ verbosity = WARNING
        /\ console = <<>>
        /\ ret[t].name = "getFullLogs"
        /\ \E i \in 1..Len(ret[t].val) :
              ret[t].val[i][2] \in {DEBUGGING, MESSAGE}

RECURSIVE TextsOf(_, _)
\* The texts of the entries of ls whose priority is in the set wanted, each
\* once, in the order of ls.
TextsOf(ls, wanted) ==
    IF ls = <<>> THEN <<>>
    ELSE (IF Head(ls).second \in wanted THEN <<Head(ls).first>> ELSE <<>>)
         \o TextsOf(Tail(ls), wanted)

\* C12: for any History and any list of nominated priorities, in any order
\* and possibly naming a priority more than once, getLogs returns exactly
\* the texts of the entries whose priority is nominated, each such entry
\* once, in History order, and nothing of any other entry.
C12_FilterReturnsEachMatchOnce ==
    \A t \in SeqThreads :
        (pc[t] = "unlock" /\ op[t].name = "getLogs") =>
            ret[t].val =
                TextsOf(logs, {op[t].prios[k] : k \in 1..Len(op[t].prios)})

\* C13: setLog stores the given text as it is, with no timestamp and no
\* priority tag, under the given priority, and from any state leaves History
\* with the length and the cursor with the value that the push and eviction
\* of a one-shot record leave from that state.
C13_InjectedLikeARecord ==
    [][\A t \in SeqThreads :
          /\ (pc[t] = "setLog" /\ pc'[t] = "setLogEvict") =>
                /\ Len(logs') = Len(logs) + 1
                /\ SubSeq(logs', 1, Len(logs)) = logs
                /\ Pair(logs'[Len(logs')]) =
                       <<(<<"ext">> \o MarkerText(op[t].id)), op[t].p>>
                /\ ~Contains(logs'[Len(logs')].first, <<" / ">>)
                /\ logPointer' = logPointer
                /\ console' = console
                /\ file' = file
          /\ (pc[t] = "setLogEvict" /\ pc'[t] = "unlock") =>
                /\ logs' = eraseBegin(logs, logPointer).logs
                /\ logPointer' = eraseBegin(logs, logPointer).logPointer]_vars

\* A setLog has made the first eviction, of an entry that getNewLogs had
\* already delivered, so the cursor was positive when the entry was popped.
C13_Witness ==
    \E t \in SeqThreads :
        /\ pc[t] = "unlock"
        /\ op[t].name = "setLog"
        /\ Len(inserted) = logLength + 1
        /\ inserted[Len(inserted)].id = op[t].id
        /\ Place(delivered, inserted[1].id) # 0
        /\ logPointer < Len(delivered)

C15_TryLockOneStep ==
    [][\A t \in LockThreads :
          (calls' = calls + 1 /\ op'[t].name = "try_lock"
              /\ op'[t].id = calls + 1) =>
                /\ ret'[t].name = "try_lock"
                /\ ret'[t].val = ~mutex
                /\ pc'[t] # "lock"
                /\ mutex'
                /\ IF mutex
                      THEN /\ owners' = owners
                           /\ pc' = pc
                      ELSE /\ owners' = owners \cup {t}
                           /\ pc'[t] = "held"]_vars

\* One thread holds the lock; the try_lock() of another has returned false
\* and left it idle, with the flag set and the holder unchanged.
C15_Witness ==
    \E t, w \in LockThreads :
        /\ t # w
        /\ owners = {t}
        /\ pc[t] = "held"
        /\ mutex
        /\ pc[w] = "idle"
        /\ op[w].name = "try_lock"
        /\ ret[w].name = "try_lock"
        /\ ret[w].val = FALSE

\* The call ids whose markers flushes have cleared without recording.
DroppedIds == {pre.dropped[k].n : k \in {j \in 1..Len(pre.dropped) :
                                            pre.dropped[j].k = "int"}}

\* C16: after every flush, recorded or not, the buffer is empty and the
\* pending priority is MESSAGE; text accumulated before a flush below the
\* verbosity is in no History entry, then or later.
C16_FlushResetsBufferAndPriority ==
    /\ \A t \in SeqThreads :
          (pc[t] = "unlock" /\ op[t].name = "operator<<Action") =>
              /\ tempString = <<>>
              /\ tempPriority = MESSAGE
    /\ \A id \in DroppedIds :
          \A k \in 1..Len(inserted) :
              ~Contains(inserted[k].first, MarkerText(id))

\* A flush below the verbosity has cleared an accumulated value, and a
\* later flush, with no priority set, has recorded a later value at
\* MESSAGE.
C16_Witness ==
    \E t \in SeqThreads :
        /\ pc[t] = "unlock"
        /\ op[t].name = "operator<<Action"
        /\ DroppedIds # {}
        /\ inserted # <<>>
        /\ inserted[Len(inserted)].id = op[t].id
        /\ inserted[Len(inserted)].second = MESSAGE
        /\ verbosity = MESSAGE
        /\ \A id \in DroppedIds : id < op[t].id

\* History as it stood once k insertions were complete.
HistoryAfter(k) == LastN(SubSeq(inserted, 1, k), Min(k, logLength))

\* C17: a getFullLogs that runs while other threads insert returns History
\* as it stood at some operation boundary, that is after some number of
\* complete insertions: never more than logLength entries, and never a new
\* entry together with the oldest entry its insertion evicts.
C17_FullLogsIsABoundaryHistory ==
    \A t \in Threads :
        ret[t].name = "getFullLogs" =>
            /\ Len(ret[t].val) <= logLength
            /\ \E k \in 0..Len(inserted) :
                  ret[t].val = Pairs(HistoryAfter(k))

\* C18: every entry made by a one-shot record holds the time, the tag of
\* its priority and the text of its own call and nothing else, whatever
\* the other thread streams or records meanwhile; the streaming interface
\* gives no such guarantee (C18_Witness).
C18_RecordKeepsItsOwnText ==
    \A k \in 1..Len(inserted) :
        inserted[k].id \in recorded =>
            /\ \E now \in Clock :
                  inserted[k].first =
                      strftime(now) \o <<" / ">> \o type(inserted[k].second)
                          \o <<" / ">> \o MarkerText(inserted[k].id)
            /\ \A t \in Threads : ~Contains(inserted[k].first, NameText(t))

\* One History entry, made by a flush, holds the names streamed by both
\* threads, while an entry made by a one-shot record stands beside it.
C18_Witness ==
    /\ \E k \in 1..Len(logs) :
          /\ logs[k].id \notin recorded
          /\ \A t \in Threads : Contains(logs[k].first, NameText(t))
    /\ \E k \in 1..Len(logs) : logs[k].id \in recorded

\* C19: the lock is not reentrant.  A thread that holds the lock and calls
\* lock() again stays in the loop of lock() at every later step, still the
\* holder, with the flag set, so that the call never returns and the lock
\* is never released; a try_lock() by the holder returns false and leaves
\* it the holder.
C19_NotReentrant ==
    [][\A t \in LockThreads :
          /\ (pc[t] = "lock" /\ t \in owners) =>
                /\ pc'[t] = "lock"
                /\ owners' = owners
                /\ mutex /\ mutex'
          /\ (t \in owners /\ calls' = calls + 1
                  /\ op'[t].name = "try_lock" /\ op'[t].id = calls + 1) =>
                /\ ret'[t].val = FALSE
                /\ owners' = owners
                /\ mutex']_vars

\* The holder has called lock() again and is still spinning when every call
\* of the run has been made; nobody else ever acquired the lock.
C19_Witness ==
    \E t \in LockThreads :
        /\ pc[t] = "lock"
        /\ owners = {t}
        /\ mutex
        /\ Len(acquired) = 1
        /\ acquired[1] < op[t].id
        /\ calls = budget

=============================================================================
